---- MODULE Spec2Model ----
(***************************************************************************)
(* Video-ingestion pipeline of the media-hosting API: handlerUploadVideo   *)
(* with its helpers getVideoAspectRatio and processVideoForFastStart.      *)
(* Strings are sequences of tokens, so that string templates are modelled  *)
(* by concatenation (\o) and two paths are equal only if they are built    *)
(* from the same pieces.  A handler is split at its await points.          *)
(* Of the three revisions of handlerUploadVideo in the repository, the one *)
(* modelled is the revision that buffers to /tmp/<videoId>.mp4 and stores  *)
(* under <class>/<videoId>.mp4 (src/unnamed/part_000).                     *)
(***************************************************************************)
EXTENDS Integers, Sequences, FiniteSets, TLC

VARIABLES
    db,                 \* videos table: video id -> Video row
    disk,               \* local file system: path -> file content or NoFile
    store,              \* blob store: key -> stored object or NoObject
    pc,                 \* per run: position of the handler
    req,                \* per run: the request being handled
    video,              \* per run: the `video` local (row read by getVideo)
    aspectRatio,        \* per run: the `aspectRatio` local
    processedFilePath,  \* per run: the `processedFilePath` local
    result,             \* per run: response returned or error thrown
    log,                \* per run: side effects performed so far, in order
    pre,                \* per run: videos table, disk and blob store when it started
    cw, ch, ck, cexit,  \* probe output under test: width, height, scale, exit code
    cres,               \* what getVideoAspectRatio made of it
    videoThumbnails,    \* the in-memory thumbnail map of thumbnails.ts
    thumb,              \* the run of handlerUploadThumbnail: position and locals
    served              \* the last answer of handlerGetThumbnail

vars == <<db, disk, store, pc, req, video, aspectRatio, processedFilePath,
          result, log, pre, cw, ch, ck, cexit, cres, videoThumbnails, thumb, served>>

probeVars == <<cw, ch, ck, cexit, cres>>

thumbVars == <<videoThumbnails, thumb, served>>

\* what handlerUploadVideo never touches
restVars == <<probeVars, thumbVars>>

runVars == <<db, disk, store, pc, req, video, aspectRatio, processedFilePath,
             result, log, pre>>

(***************************************************************************)
(* Bounds                                                                  *)
(***************************************************************************)
NumProcs == 2
MaxDim == 16
MaxScale == 3

Procs == 1..NumProcs

(***************************************************************************)
(* Values                                                                  *)
(***************************************************************************)
MAX_UPLOAD_SIZE == 1073741824

Null == <<>>
NoReq == [none |-> "req"]
NoResult == [none |-> "result"]
Absent == -1

Users == {"u1", "u2"}
OwnerOf(videoId) == IF videoId = "v1" THEN "u1" ELSE "u2"

s3CfDistribution == <<"https://", "cdn.example.net">>

\* streams[0] of the ffprobe JSON for an uploaded payload
Landscape == [width |-> 16, height |-> 9]
Portrait == [width |-> 9, height |-> 16]
Wide == [width |-> 32, height |-> 9]
NoWidth == [width |-> Absent, height |-> 9]
ZeroHeight == [width |-> 16, height |-> 0]

Payloads == {Landscape, Portrait, Wide, NoWidth, ZeroHeight}

\* what formData.get("video") can be
FormFiles ==
    [isFile : {TRUE}, size : {MAX_UPLOAD_SIZE}, type : {"video/mp4"}, data : Payloads]
    \cup [isFile : {TRUE}, size : {1, MAX_UPLOAD_SIZE + 1},
          type : {"video/mp4", "image/png"}, data : {Landscape}]
    \cup {[isFile |-> FALSE, size |-> 0, type |-> "", data |-> NoWidth]}

Requests ==
    [videoId : {"", "v1", "v2"},
     token : Users \cup {"none", "bad"},
     file : FormFiles]

VideoRow(v) == [id |-> v, userID |-> OwnerOf(v), videoURL |-> Null, thumbnailURL |-> Null]

(***************************************************************************)
(* Strings, paths and keys                                                 *)
(***************************************************************************)
\* mutant of TempFilePath: one path for every upload
TempFilePathShared(videoId) == <<"/tmp", "/", "upload", ".mp4">>

\* path.join("/tmp", `${videoId}.mp4`)
TempFilePath(videoId) == <<"/tmp", "/", videoId, ".mp4">>

\* the output path processVideoForFastStart hands to ffmpeg and returns
ProcessedPath(filePath) == filePath \o <<"\"", ".processed.mp4">>

\* the second path handlerUploadVideo removes
RemovedProcessedPath(tempFilePath) == tempFilePath \o <<".processed.mp4">>

\* mutants of StorageKey: the class left out of the key; a fresh name per upload
StorageKeyWithoutClass(aspect, videoId) == <<videoId, ".mp4">>

StorageKeyFreshName(aspect, videoId) ==
    <<aspect, "/", videoId, "-", ToString(Cardinality(DOMAIN store)), ".mp4">>

\* `${aspectRatio}/${videoId}.mp4`
StorageKey(aspect, videoId) == <<aspect, "/", videoId, ".mp4">>

\* `${cfg.s3CfDistribution}/${key}`
VideoURL(key) == s3CfDistribution \o <<"/">> \o key

(***************************************************************************)
(* Files and objects: finite maps with a growing domain                    *)
(***************************************************************************)
Exists(f, k) == k \in DOMAIN f
Put(f, k, v) == [x \in DOMAIN f \cup {k} |-> IF x = k THEN v ELSE f[x]]
Remove(f, k) == [x \in DOMAIN f \ {k} |-> f[x]]

RawFile(data) == [faststart |-> FALSE, stream |-> data]
FastStartOf(file) == [faststart |-> TRUE, stream |-> file.stream]
Object(file, type) == [body |-> file, type |-> type]

(***************************************************************************)
(* Results of a handler                                                    *)
(***************************************************************************)
Thrown(name) == [threw |-> TRUE, error |-> name, status |-> 0, body |-> Null]
Responded(status, body) == [threw |-> FALSE, error |-> "", status |-> status, body |-> body]

(***************************************************************************)
(* getVideoAspectRatio                                                     *)
(***************************************************************************)
\* mutant of MathFloorDiv: Math.round in place of Math.floor
MathRoundDiv(a, b) == (2 * a + b) \div (2 * b)

\* mutant of MathFloorDiv: a difference in place of the quotient
MathDifference(a, b) == a - b

MathFloorDiv(a, b) == a \div b

Falsy(x) == x = Absent \/ x = 0

\* mutant of AspectOf: a square picture singled out as "other"
AspectOfSquareOther(width, height) ==
    IF width = height THEN "other"
    ELSE IF MathFloorDiv(width, height) = MathFloorDiv(16, 9) THEN "landscape"
    ELSE IF MathFloorDiv(width, height) = MathFloorDiv(9, 16) THEN "portrait"
    ELSE "other"

AspectOf(width, height) ==
    IF MathFloorDiv(width, height) = MathFloorDiv(16, 9) THEN "landscape"
    ELSE IF MathFloorDiv(width, height) = MathFloorDiv(9, 16) THEN "portrait"
    ELSE "other"

\* mutant of getVideoAspectRatio: the exit code is not looked at
getVideoAspectRatioIgnoringExit(exitCode, stream) ==
    IF Falsy(stream.width) \/ Falsy(stream.height)
    THEN [threw |-> TRUE, value |-> "Could not read video dimensions"]
    ELSE [threw |-> FALSE, value |-> AspectOf(stream.width, stream.height)]

getVideoAspectRatio(exitCode, stream) ==
    IF exitCode # 0 THEN [threw |-> TRUE, value |-> "ffprobe failed"]
    ELSE IF Falsy(stream.width) \/ Falsy(stream.height)
         THEN [threw |-> TRUE, value |-> "Could not read video dimensions"]
    ELSE [threw |-> FALSE, value |-> AspectOf(stream.width, stream.height)]

(***************************************************************************)
(* Collaborators outside this file set: auth, videos table, blob store     *)
(***************************************************************************)
NoUser == "<no user>"

\* getBearerToken + validateJWT: the user the credential resolves to
validateJWT(token) == IF token \in Users THEN token ELSE NoUser

getVideo(d, videoId) == IF videoId \in DOMAIN d THEN d[videoId] ELSE Null

updateVideo(d, v) == [d EXCEPT ![v.id] = v]

\* the object the blob store holds under `key` after a completed write
uploadVideoToS3(s, key, file, contentType) == Put(s, key, Object(file, contentType))

(***************************************************************************)
(* State after construction                                                *)
(***************************************************************************)
InitRun ==
    /\ db = [v \in {"v1"} |-> VideoRow(v)]
    /\ disk = <<>>
    /\ store = <<>>
    /\ pc = [p \in Procs |-> "idle"]
    /\ req = [p \in Procs |-> NoReq]
    /\ video = [p \in Procs |-> Null]
    /\ aspectRatio = [p \in Procs |-> ""]
    /\ processedFilePath = [p \in Procs |-> Null]
    /\ result = [p \in Procs |-> NoResult]
    /\ log = [p \in Procs |-> <<>>]
    /\ pre = [p \in Procs |-> Null]
    /\ videoThumbnails = <<>>
    /\ thumb = [pc |-> "idle", req |-> NoReq, video |-> Null, fileName |-> "",
                result |-> NoResult]
    /\ served = NoResult

Init ==
    /\ InitRun
    /\ cw = 1 /\ ch = 1 /\ ck = 1 /\ cexit = 0 /\ cres = NoResult

(***************************************************************************)
(* handlerUploadVideo, one action per stretch between two awaits           *)
(***************************************************************************)
Throw(p, name) ==
    /\ pc' = [pc EXCEPT ![p] = "done"]
    /\ result' = [result EXCEPT ![p] = Thrown(name)]

Goto(p, label) ==
    /\ pc' = [pc EXCEPT ![p] = label]
    /\ UNCHANGED result

Logged(p, step) == log' = [log EXCEPT ![p] = Append(@, step)]

\* an external tool was spawned and ended with exitCode
Spawned(p, tool, exitCode) ==
    log' = [log EXCEPT ![p] = @ \o <<tool, IF exitCode = 0 THEN "exit 0" ELSE "exit 1">>]

\* mutant of ValidateRequest: the ownership check left out
ValidateRequestNoOwnerCheck(r, d) ==
    IF r.videoId = "" THEN "BadRequestError"
    ELSE IF validateJWT(r.token) = NoUser THEN "AuthFailure"
    ELSE IF getVideo(d, r.videoId) = Null THEN "NotFoundError"
    ELSE "ok"

\* videoId, credential, getVideo and the ownership check
ValidateRequest(r, d) ==
    IF r.videoId = "" THEN "BadRequestError"
    ELSE IF validateJWT(r.token) = NoUser THEN "AuthFailure"
    ELSE IF getVideo(d, r.videoId) = Null THEN "NotFoundError"
    ELSE IF getVideo(d, r.videoId).userID # validateJWT(r.token) THEN "UserForbiddenError"
    ELSE "ok"

\* mutants of ValidateFile: no size check; a limit that excludes 2^30 itself
ValidateFileNoSizeCheck(file) ==
    IF ~file.isFile THEN "BadRequestError"
    ELSE IF file.type # "video/mp4" THEN "BadRequestError"
    ELSE "ok"

ValidateFileExclusiveLimit(file) ==
    IF ~file.isFile THEN "BadRequestError"
    ELSE IF file.size >= MAX_UPLOAD_SIZE THEN "BadRequestError"
    ELSE IF file.type # "video/mp4" THEN "BadRequestError"
    ELSE "ok"

\* the checks on the form's "video" field
ValidateFile(file) ==
    IF ~file.isFile THEN "BadRequestError"
    ELSE IF file.size > MAX_UPLOAD_SIZE THEN "BadRequestError"
    ELSE IF file.type # "video/mp4" THEN "BadRequestError"
    ELSE "ok"

Begin(p, r) ==
    /\ pc[p] = "idle"
    /\ req' = [req EXCEPT ![p] = r]
    /\ pre' = [pre EXCEPT ![p] = [db |-> db, disk |-> disk, store |-> store]]
    /\ IF ValidateRequest(r, db) = "ok"
       THEN /\ video' = [video EXCEPT ![p] = getVideo(db, r.videoId)]
            /\ Goto(p, "formData")
       ELSE /\ Throw(p, ValidateRequest(r, db))
            /\ UNCHANGED video
    /\ UNCHANGED <<db, disk, store, aspectRatio, processedFilePath, log, restVars>>

FormData(p) ==
    /\ pc[p] = "formData"
    /\ IF ValidateFile(req[p].file) = "ok"
       THEN Goto(p, "write")
       ELSE Throw(p, ValidateFile(req[p].file))
    /\ UNCHANGED <<db, disk, store, req, video, aspectRatio, processedFilePath, log, pre,
                   restVars>>

BunWrite(p) ==
    /\ pc[p] = "write"
    /\ disk' = Put(disk, TempFilePath(req[p].videoId), RawFile(req[p].file.data))
    /\ Logged(p, "Bun.write")
    /\ Goto(p, "probe")
    /\ UNCHANGED <<db, store, req, video, aspectRatio, processedFilePath, pre, restVars>>

\* exit codes the external tool can end with on `path`
ExitCodes(path) == IF Exists(disk, path) THEN {0, 1} ELSE {1}

StreamAt(path) ==
    IF Exists(disk, path) THEN disk[path].stream
    ELSE [width |-> Absent, height |-> Absent]

Probe(p) ==
    /\ pc[p] = "probe"
    /\ \E exitCode \in ExitCodes(TempFilePath(req[p].videoId)) :
         LET got == getVideoAspectRatio(exitCode, StreamAt(TempFilePath(req[p].videoId)))
         IN  /\ Spawned(p, "ffprobe", exitCode)
             /\ IF got.threw
                THEN Throw(p, "Error") /\ UNCHANGED aspectRatio
                ELSE /\ aspectRatio' = [aspectRatio EXCEPT ![p] = got.value]
                     /\ Goto(p, "remux")
    /\ UNCHANGED <<db, disk, store, req, video, processedFilePath, pre, restVars>>

\* mutant of processVideoForFastStart: the exit code of ffmpeg is not looked at
processVideoForFastStartIgnoringExit(p) ==
    /\ pc[p] = "remux"
    /\ LET filePath == TempFilePath(req[p].videoId)
       IN  \E exitCode \in ExitCodes(filePath) :
             /\ Spawned(p, "ffmpeg", exitCode)
             /\ IF exitCode # 0
                THEN UNCHANGED disk
                ELSE disk' = Put(disk, ProcessedPath(filePath), FastStartOf(disk[filePath]))
             /\ processedFilePath' =
                    [processedFilePath EXCEPT ![p] = ProcessedPath(filePath)]
             /\ Goto(p, "upload")
    /\ UNCHANGED <<db, store, req, video, aspectRatio, pre, restVars>>

processVideoForFastStart(p) ==
    /\ pc[p] = "remux"
    /\ LET filePath == TempFilePath(req[p].videoId)
       IN  \E exitCode \in ExitCodes(filePath) :
             /\ Spawned(p, "ffmpeg", exitCode)
             /\ IF exitCode # 0
                THEN Throw(p, "Error") /\ UNCHANGED <<disk, processedFilePath>>
                ELSE /\ disk' = Put(disk, ProcessedPath(filePath),
                                    FastStartOf(disk[filePath]))
                     /\ processedFilePath' =
                            [processedFilePath EXCEPT ![p] = ProcessedPath(filePath)]
                     /\ Goto(p, "upload")
    /\ UNCHANGED <<db, store, req, video, aspectRatio, pre, restVars>>

\* mutant of Upload: a failed blob-store write is swallowed
UploadIgnoringFailure(p) ==
    /\ pc[p] = "upload"
    /\ Logged(p, "s3.write")
    /\ LET key == StorageKey(aspectRatio[p], req[p].videoId)
       IN  \E ok \in BOOLEAN :
             IF ok /\ Exists(disk, processedFilePath[p])
             THEN store' = uploadVideoToS3(store, key, disk[processedFilePath[p]],
                                           "video/mp4")
             ELSE UNCHANGED store
    /\ Goto(p, "record")
    /\ UNCHANGED <<db, disk, req, video, aspectRatio, processedFilePath, pre, restVars>>

Upload(p) ==
    /\ pc[p] = "upload"
    /\ Logged(p, "s3.write")
    /\ LET key == StorageKey(aspectRatio[p], req[p].videoId)
       IN  \E ok \in BOOLEAN :
             IF ok /\ Exists(disk, processedFilePath[p])
             THEN /\ store' = uploadVideoToS3(store, key, disk[processedFilePath[p]],
                                               "video/mp4")
                  /\ Goto(p, "record")
             ELSE Throw(p, "StorageWriteFailure") /\ UNCHANGED store
    /\ UNCHANGED <<db, disk, req, video, aspectRatio, processedFilePath, pre, restVars>>

Record(p) ==
    /\ pc[p] = "record"
    /\ Logged(p, "updateVideo")
    /\ LET key == StorageKey(aspectRatio[p], req[p].videoId)
           updated == [video[p] EXCEPT !.videoURL = VideoURL(key)]
       IN  /\ video' = [video EXCEPT ![p] = updated]
           /\ \E ok \in BOOLEAN :
                 IF ok
                 THEN db' = updateVideo(db, updated) /\ Goto(p, "cleanup")
                 ELSE Throw(p, "SQLiteError") /\ UNCHANGED db
    /\ UNCHANGED <<disk, store, req, aspectRatio, processedFilePath, pre, restVars>>

\* mutant of Rm: the whole temporary directory is emptied
RmWholeTmp(d, path, ok) == IF ok THEN [x \in {y \in DOMAIN d : y[1] # "/tmp"} |-> d[x]] ELSE d

\* rm(path, { force: true }): a missing path is no error
Rm(d, path, ok) == IF ok /\ Exists(d, path) THEN Remove(d, path) ELSE d

Cleanup(p) ==
    /\ pc[p] = "cleanup"
    /\ Logged(p, "rm")
    /\ LET tempFilePath == TempFilePath(req[p].videoId)
       IN  \E ok1, ok2 \in BOOLEAN :
             /\ disk' = Rm(Rm(disk, tempFilePath, ok1),
                           RemovedProcessedPath(tempFilePath), ok2)
             /\ IF ok1 /\ ok2
                THEN /\ pc' = [pc EXCEPT ![p] = "done"]
                     /\ result' = [result EXCEPT ![p] = Responded(200, video[p])]
                ELSE Throw(p, "SystemError")
    /\ UNCHANGED <<db, store, req, video, aspectRatio, processedFilePath, pre, restVars>>

\* the handler has returned or thrown; the run's locals go away
Finish(p) ==
    /\ pc[p] = "done"
    /\ pc' = [pc EXCEPT ![p] = "idle"]
    /\ req' = [req EXCEPT ![p] = NoReq]
    /\ video' = [video EXCEPT ![p] = Null]
    /\ aspectRatio' = [aspectRatio EXCEPT ![p] = ""]
    /\ processedFilePath' = [processedFilePath EXCEPT ![p] = Null]
    /\ result' = [result EXCEPT ![p] = NoResult]
    /\ log' = [log EXCEPT ![p] = <<>>]
    /\ pre' = [pre EXCEPT ![p] = Null]
    /\ UNCHANGED <<db, disk, store, restVars>>

Step(p) ==
    \/ FormData(p)
    \/ BunWrite(p)
    \/ Probe(p)
    \/ processVideoForFastStart(p)
    \/ Upload(p)
    \/ Record(p)
    \/ Cleanup(p)
    \/ Finish(p)

\* requests arrive one after the other
NoneInFlight == \A q \in Procs : pc[q] = "idle"

Next ==
    \/ \E p \in Procs, r \in Requests : NoneInFlight /\ Begin(p, r)
    \/ \E p \in Procs : Step(p)

Spec == Init /\ [][Next]_vars

\* requests arrive at any time
NextConc ==
    \/ \E p \in Procs, r \in Requests : Begin(p, r)
    \/ \E p \in Procs : Step(p)

SpecConc == Init /\ [][NextConc]_vars

(***************************************************************************)
(* src/api/thumbnails.ts: handlerUploadThumbnail and handlerGetThumbnail,  *)
(* which share the VideoRecord with handlerUploadVideo                     *)
(***************************************************************************)
\* how many names randomBytes hands out before the model stops uploading
MaxThumbs == 2

FileNames == {"rnd" \o ToString(i) : i \in 1..MaxThumbs}

\* 10 * 1024 * 1024
ThumbMaxUploadSize == 10485760

assetsRoot == <<"assets">>
port == "8091"

PngFile == [isFile |-> TRUE, size |-> ThumbMaxUploadSize, type |-> "image/png",
            data |-> "png bytes"]
JpegFile == [isFile |-> TRUE, size |-> 1, type |-> "image/jpeg", data |-> "jpeg bytes"]

ThumbFiles ==
    {PngFile, JpegFile,
     [PngFile EXCEPT !.size = ThumbMaxUploadSize + 1],
     [PngFile EXCEPT !.type = "video/mp4"],
     [PngFile EXCEPT !.isFile = FALSE]}

ThumbRequests ==
    [videoId : {"", "v1", "v2"}, token : {"u1", "u2", "bad"}, file : {PngFile}]
    \cup [videoId : {"v1"}, token : {"u1"}, file : ThumbFiles]

\* mediaType.split("/")[1]
Ext(mediaType) ==
    IF mediaType = "image/png" THEN "png"
    ELSE IF mediaType = "image/jpeg" THEN "jpeg"
    ELSE "mp4"

AssetPath(fileName, ext) == assetsRoot \o <<"/", fileName, ".", ext>>

ThumbnailURL(fileName, ext) ==
    <<"http://localhost:", port, "/assets/", fileName, ".", ext>>

Thumbnail(data, mediaType) == [data |-> data, mediaType |-> mediaType]

\* the checks on the form's "thumbnail" field
ValidateThumbnail(file) ==
    IF ~file.isFile THEN "BadRequestError"
    ELSE IF file.size > ThumbMaxUploadSize THEN "BadRequestError"
    ELSE IF file.type # "image/jpeg" /\ file.type # "image/png" THEN "BadRequestError"
    ELSE "ok"

ThumbThrow(name) ==
    thumb' = [thumb EXCEPT !.pc = "done", !.result = Thrown(name)]

ThumbBegin(r) ==
    /\ thumb.pc = "idle"
    /\ FileNames \ DOMAIN videoThumbnails # {}
    /\ IF r.videoId = "" THEN thumb' = [thumb EXCEPT !.req = r, !.pc = "done",
                                                   !.result = Thrown("BadRequestError")]
       ELSE IF validateJWT(r.token) = NoUser
            THEN thumb' = [thumb EXCEPT !.req = r, !.pc = "done",
                                        !.result = Thrown("AuthFailure")]
            ELSE thumb' = [thumb EXCEPT !.req = r, !.pc = "formData"]
    /\ UNCHANGED <<runVars, probeVars, videoThumbnails, served>>

ThumbFormData ==
    /\ thumb.pc = "formData"
    /\ IF ValidateThumbnail(thumb.req.file) = "ok"
       THEN thumb' = [thumb EXCEPT !.pc = "arrayBuffer"]
       ELSE ThumbThrow(ValidateThumbnail(thumb.req.file))
    /\ UNCHANGED <<runVars, probeVars, videoThumbnails, served>>

\* file.arrayBuffer() has resolved: the record is read and the name drawn
ThumbArrayBuffer ==
    /\ thumb.pc = "arrayBuffer"
    /\ LET row == getVideo(db, thumb.req.videoId)
       IN  IF row = Null THEN ThumbThrow("NotFoundError")
           ELSE IF row.userID # validateJWT(thumb.req.token)
                THEN ThumbThrow("UserForbiddenError")
                ELSE \E fileName \in FileNames \ DOMAIN videoThumbnails :
                        thumb' = [thumb EXCEPT !.pc = "write", !.video = row,
                                               !.fileName = fileName]
    /\ UNCHANGED <<runVars, probeVars, videoThumbnails, served>>

\* Bun.write has resolved: the map entry, the record update and the answer
ThumbBunWrite ==
    /\ thumb.pc = "write"
    /\ LET file == thumb.req.file
           ext == Ext(file.type)
           updated == [thumb.video EXCEPT
                          !.thumbnailURL = ThumbnailURL(thumb.fileName, ext)]
       IN  /\ disk' = Put(disk, AssetPath(thumb.fileName, ext), file.data)
           /\ videoThumbnails' =
                  Put(videoThumbnails, thumb.fileName, Thumbnail(file.data, file.type))
           /\ \E ok \in BOOLEAN :
                 IF ok
                 THEN /\ db' = updateVideo(db, updated)
                      /\ thumb' = [thumb EXCEPT !.pc = "done", !.video = updated,
                                                !.result = Responded(200, updated)]
                 ELSE /\ UNCHANGED db
                      /\ thumb' = [thumb EXCEPT !.pc = "done", !.video = updated,
                                                !.result = Thrown("SQLiteError")]
    /\ UNCHANGED <<store, pc, req, video, aspectRatio, processedFilePath, result, log,
                   pre, probeVars, served>>

ThumbFinish ==
    /\ thumb.pc = "done"
    /\ thumb' = [pc |-> "idle", req |-> NoReq, video |-> Null, fileName |-> "",
                 result |-> NoResult]
    /\ UNCHANGED <<runVars, probeVars, videoThumbnails, served>>

\* handlerGetThumbnail has no await: its answer is a function of the state
handlerGetThumbnail(d, thumbnails, videoId) ==
    IF videoId = "" THEN Thrown("BadRequestError")
    ELSE IF getVideo(d, videoId) = Null THEN Thrown("NotFoundError: Couldn't find video")
    ELSE IF ~Exists(thumbnails, videoId) THEN Thrown("NotFoundError: Thumbnail not found")
    ELSE Responded(200, thumbnails[videoId])

GetThumbnail(videoId) ==
    /\ served' = [videoId |-> videoId,
                  response |-> handlerGetThumbnail(db, videoThumbnails, videoId)]
    /\ UNCHANGED <<runVars, probeVars, videoThumbnails, thumb>>

\* the one video upload the thumbnail handlers run next to
ThumbSideUploads ==
    {r \in Requests : /\ r.videoId = "v1" /\ r.token = "u1"
                      /\ ValidateFile(r.file) = "ok" /\ r.file.data = Landscape}

NextThumb ==
    \/ \E r \in ThumbSideUploads : Begin(1, r)
    \/ Step(1)
    \/ \E r \in ThumbRequests : ThumbBegin(r)
    \/ ThumbFormData
    \/ ThumbArrayBuffer
    \/ ThumbBunWrite
    \/ ThumbFinish
    \/ \E videoId \in {"", "v1", "v2"} : GetThumbnail(videoId)

SpecThumb == Init /\ [][NextThumb]_vars

(***************************************************************************)
(* Uploads that overlap: every run is started once, with a request that    *)
(* passes all checks, and the runs take their steps in any order           *)
(***************************************************************************)
InitRace ==
    /\ db = [v \in {"v1", "v2"} |-> VideoRow(v)]
    /\ disk = <<>>
    /\ store = <<>>
    /\ pc = [p \in Procs |-> "idle"]
    /\ req = [p \in Procs |-> NoReq]
    /\ video = [p \in Procs |-> Null]
    /\ aspectRatio = [p \in Procs |-> ""]
    /\ processedFilePath = [p \in Procs |-> Null]
    /\ result = [p \in Procs |-> NoResult]
    /\ log = [p \in Procs |-> <<>>]
    /\ pre = [p \in Procs |-> Null]
    /\ videoThumbnails = <<>>
    /\ thumb = [pc |-> "idle", req |-> NoReq, video |-> Null, fileName |-> "",
                result |-> NoResult]
    /\ served = NoResult
    /\ cw = 1 /\ ch = 1 /\ ck = 1 /\ cexit = 0 /\ cres = NoResult

RaceRequests ==
    {r \in Requests : /\ r.videoId \in {"v1", "v2"}
                      /\ r.token = OwnerOf(r.videoId)
                      /\ ValidateFile(r.file) = "ok"
                      /\ r.file.data \in {Landscape, Portrait}}

NextRace ==
    \/ \E p \in Procs, r \in RaceRequests : Begin(p, r)
    \/ \E p \in Procs : FormData(p)
    \/ \E p \in Procs : BunWrite(p)
    \/ \E p \in Procs : Probe(p)
    \/ \E p \in Procs : processVideoForFastStart(p)
    \/ \E p \in Procs : Upload(p)
    \/ \E p \in Procs : Record(p)
    \/ \E p \in Procs : Cleanup(p)

SpecRace == InitRace /\ [][NextRace]_vars

(***************************************************************************)
(* getVideoAspectRatio on its own: every probe output within the bounds    *)
(***************************************************************************)
DimValues == {Absent} \cup (0..MaxDim)

Scaled(x, k) == IF x = Absent THEN Absent ELSE x * k

InitProbe ==
    /\ InitRun
    /\ cw \in DimValues /\ ch \in DimValues
    /\ ck = 1
    /\ cexit \in {0, 1}
    /\ cres = NoResult

\* the probe tool reports cw*ck by ch*ck and ends with cexit
ProbeReturns ==
    /\ cres = NoResult
    /\ cres' = getVideoAspectRatio(cexit, [width |-> Scaled(cw, ck), height |-> Scaled(ch, ck)])
    /\ UNCHANGED <<runVars, thumbVars, cw, ch, ck, cexit>>

\* the same picture at the next scale
ProbeScaled ==
    /\ cres # NoResult
    /\ ck < MaxScale
    /\ ck' = ck + 1
    /\ cres' = NoResult
    /\ UNCHANGED <<runVars, thumbVars, cw, ch, cexit>>

NextProbe == ProbeReturns \/ ProbeScaled

SpecProbe == InitProbe /\ [][NextProbe]_vars

(***************************************************************************)
(* Properties                                                              *)
(***************************************************************************)
Ended(p) == pc[p] = "done"
Failed(p) == Ended(p) /\ result[p].threw
Succeeded(p) == Ended(p) /\ ~result[p].threw
Did(p, step) == \E i \in 1..Len(log[p]) : log[p][i] = step

\* C1: a run that buffered its payload to disk and then ended with an error
\* has left none of the temporary files it created: neither the raw buffered
\* file nor, if it was produced, the fast-start copy.
C1_ErrorLeavesNoTempFile ==
    \A p \in Procs :
        (Failed(p) /\ Did(p, "Bun.write")) =>
            /\ ~Exists(disk, TempFilePath(req[p].videoId))
            /\ processedFilePath[p] # Null => ~Exists(disk, processedFilePath[p])

\* C2: after a successful run both temporary files are gone: the raw buffered
\* file and the file at the path processVideoForFastStart wrote and returned.
C2_SuccessLeavesNoTempFile ==
    \A p \in Procs :
        Succeeded(p) =>
            /\ ~Exists(disk, TempFilePath(req[p].videoId))
            /\ ~Exists(disk, processedFilePath[p])

\* C3: whenever a run ends with an error, the videos table is what it was
\* before the run; only runs that return success change the playback URL.
C3_ErrorLeavesRecord ==
    \A p \in Procs : Failed(p) => db = pre[p].db

\* the objects the blob store holds for a video id
KeysOf(videoId) == {k \in DOMAIN store : \E i \in 1..Len(k) : k[i] = videoId}

\* C4: a playback URL in the videos table is the public base address joined
\* with a key under which the blob store holds an uploaded object.
C4_UrlPointsAtObject ==
    \A v \in DOMAIN db :
        db[v].videoURL # Null =>
            \E k \in DOMAIN store :
                /\ db[v].videoURL = s3CfDistribution \o <<"/">> \o k
                /\ store[k].body.faststart

C4_Witness == \E v \in DOMAIN db : db[v].videoURL # Null

\* what the specification calls a request that fails validation
InvalidRequest(r, d) ==
    \/ r.videoId = ""
    \/ r.token \notin Users
    \/ r.videoId \notin DOMAIN d
    \/ (r.videoId \in DOMAIN d /\ d[r.videoId].userID # r.token)
    \/ ~r.file.isFile
    \/ r.file.size > 1073741824
    \/ r.file.type # "video/mp4"

\* C5: a run whose request fails validation creates no temporary file, starts
\* no probe or remux process and writes nothing to the blob store.
C5_InvalidHasNoEffect ==
    \A p \in Procs :
        (req[p] # NoReq /\ InvalidRequest(req[p], pre[p].db)) =>
            /\ log[p] = <<>>
            /\ disk = pre[p].disk
            /\ store = pre[p].store
            /\ pc[p] \in {"formData", "done"}

C5_Witness ==
    \E p \in Procs :
        /\ Failed(p)
        /\ req[p].file.isFile /\ req[p].file.size > 1073741824
        /\ req[p].videoId \in DOMAIN db /\ req[p].token = db[req[p].videoId].userID

\* the request of run p comes from the owner of an existing video
ByOwner(p) ==
    /\ req[p] # NoReq
    /\ req[p].videoId \in DOMAIN pre[p].db
    /\ req[p].token = pre[p].db[req[p].videoId].userID

GoodFile(file) == file.isFile /\ file.size <= 1073741824 /\ file.type = "video/mp4"

\* C6: a successful run for video V whose payload is of class C has written
\* the fast-start copy of that payload under the key C/V.mp4 and under no
\* other key, and V's playback URL is the base address joined by "/" with
\* that key.
C6_KeyAndUrl ==
    \A p \in Procs :
        Succeeded(p) =>
            LET V == req[p].videoId
                data == req[p].file.data
                key == <<AspectOf(data.width, data.height), "/", V, ".mp4">>
            IN  /\ Exists(store, key)
                /\ store[key] = [body |-> [faststart |-> TRUE, stream |-> data],
                                 type |-> "video/mp4"]
                /\ \A k \in DOMAIN store \ {key} :
                      k \in DOMAIN pre[p].store /\ store[k] = pre[p].store[k]
                /\ db[V].videoURL = s3CfDistribution \o <<"/">> \o key
                /\ result[p].body.videoURL = db[V].videoURL

C6_Witness ==
    \E p \in Procs : Succeeded(p) /\ req[p].file.data = Portrait /\ pre[p].store # <<>>

\* C7: one payload of one video never lies under two keys, and a successful
\* run that uploads a payload the store already holds for that video adds
\* no key: repeated uploads overwrite the same key.
C7_SameKeyOnReupload ==
    /\ \A v \in DOMAIN db : \A k1, k2 \in KeysOf(v) :
          store[k1].body = store[k2].body => k1 = k2
    /\ \A p \in Procs :
          (Succeeded(p) /\ \E k \in DOMAIN pre[p].store :
                              /\ \E i \in 1..Len(k) : k[i] = req[p].videoId
                              /\ pre[p].store[k].body.stream = req[p].file.data)
              => DOMAIN store = DOMAIN pre[p].store

C7_Witness ==
    \E p \in Procs :
        /\ Succeeded(p)
        /\ \E k \in DOMAIN pre[p].store :
               /\ k \in KeysOf(req[p].videoId)
               /\ pre[p].store[k].body.stream = req[p].file.data

\* C8: an otherwise valid request by a user who does not own the video
\* fails with UserForbiddenError and leaves the videos table as it was.
C8_NotOwnerForbidden ==
    \A p \in Procs :
        (/\ req[p] # NoReq
         /\ req[p].videoId \in DOMAIN pre[p].db
         /\ req[p].token \in Users
         /\ req[p].token # pre[p].db[req[p].videoId].userID
         /\ GoodFile(req[p].file))
            => /\ Failed(p)
               /\ result[p].error = "UserForbiddenError"
               /\ db = pre[p].db

C8_Witness ==
    \E p \in Procs :
        /\ Failed(p) /\ req[p].videoId \in DOMAIN db /\ req[p].token \in Users
        /\ req[p].token # db[req[p].videoId].userID /\ GoodFile(req[p].file)

\* C9: for a request by the owner of an existing video, a video field that
\* is no file, a size above 2^30 or a content type other than video/mp4
\* ends in BadRequestError; a video/mp4 file of exactly 2^30 bytes passes.
C9_FileChecks ==
    \A p \in Procs :
        ByOwner(p) =>
            /\ ~GoodFile(req[p].file) =>
                  \/ pc[p] = "formData"
                  \/ Failed(p) /\ result[p].error = "BadRequestError"
            /\ GoodFile(req[p].file) =>
                  /\ ~(Failed(p) /\ result[p].error = "BadRequestError")
                  /\ Ended(p) => Did(p, "Bun.write")

C9_Witness ==
    \E p \in Procs :
        /\ ByOwner(p) /\ req[p].file.isFile /\ req[p].file.type = "video/mp4"
        /\ req[p].file.size = 1073741824 /\ pc[p] = "write"

\* C6 as stated: the playback URL is the base address immediately followed
\* by the key.
C6_UrlIsBaseThenKey ==
    \A p \in Procs :
        Succeeded(p) =>
            LET data == req[p].file.data
                key == <<AspectOf(data.width, data.height), "/", req[p].videoId, ".mp4">>
            IN  /\ Exists(store, key)
                /\ db[req[p].videoId].videoURL = s3CfDistribution \o key

\* the probe output under test was classified
Classified(w, h) ==
    /\ cres # NoResult
    /\ cexit = 0
    /\ Scaled(cw, ck) = w /\ Scaled(ch, ck) = h

\* C10 as stated: 16 by 9 is landscape, 9 by 16 is portrait and 1 by 1 is
\* other.
C10_SquareIsOther ==
    /\ Classified(16, 9) => cres = [threw |-> FALSE, value |-> "landscape"]
    /\ Classified(9, 16) => cres = [threw |-> FALSE, value |-> "portrait"]
    /\ Classified(1, 1) => cres = [threw |-> FALSE, value |-> "other"]

\* C10 amended: 16 by 9 is landscape, 9 by 16 is portrait and 1 by 1 is
\* landscape.
C10_SquareIsLandscape ==
    /\ Classified(16, 9) => cres = [threw |-> FALSE, value |-> "landscape"]
    /\ Classified(9, 16) => cres = [threw |-> FALSE, value |-> "portrait"]
    /\ Classified(1, 1) => cres = [threw |-> FALSE, value |-> "landscape"]

C10_Witness == Classified(1, 1)

\* a probe output with positive width and height was classified
ClassifiedPositive ==
    /\ cres # NoResult
    /\ cexit = 0
    /\ cw >= 1 /\ ch >= 1

\* C11: for positive width, height and k the class of (k*width, k*height) is
\* the class of (width, height), and it is landscape, portrait or other.
C11_ScaleInvariant ==
    ClassifiedPositive =>
        /\ ~cres.threw
        /\ cres.value \in {"landscape", "portrait", "other"}
        /\ cres.value = AspectOf(cw, ch)

C11_Witness == ClassifiedPositive /\ cw = 3 /\ ch = 2 /\ ck = 3

\* C15: for positive width and height the class is landscape exactly when
\* height <= width < 2*height, portrait exactly when width < height and
\* other exactly when width >= 2*height.
C15_Partition ==
    ClassifiedPositive =>
        LET w == Scaled(cw, ck)
            h == Scaled(ch, ck)
        IN  /\ ~cres.threw
            /\ cres.value = "landscape" <=> (h <= w /\ w < 2 * h)
            /\ cres.value = "portrait" <=> w < h
            /\ cres.value = "other" <=> w >= 2 * h

C15_Witness ==
    /\ ClassifiedPositive /\ cw = 3 /\ ch = 2 /\ ck = 1
    /\ cres.value = "landscape"

\* run p spawned the probe tool, and it ended non-zero or reported a width
\* or height that is absent or zero
ProbeBad(p) ==
    /\ Did(p, "ffprobe")
    /\ \/ log[p][3] = "exit 1"
       \/ req[p].file.data.width \in {Absent, 0}
       \/ req[p].file.data.height \in {Absent, 0}

\* C12: when the probe tool exits non-zero or the width or height is absent
\* or zero, getVideoAspectRatio throws and returns no class, and the run ends
\* there: no remux, no blob-store write, no record update.
C12_ProbeFailureEndsRun ==
    \A p \in Procs :
        ProbeBad(p) =>
            /\ Failed(p) /\ result[p].error = "Error"
            /\ aspectRatio[p] = ""
            /\ Len(log[p]) = 3
            /\ processedFilePath[p] = Null
            /\ \A f \in (DOMAIN disk \cup DOMAIN pre[p].disk)
                          \ {TempFilePath(req[p].videoId)} :
                  f \in DOMAIN disk /\ f \in DOMAIN pre[p].disk /\ disk[f] = pre[p].disk[f]
            /\ store = pre[p].store
            /\ db = pre[p].db

C12_Witness ==
    \E p \in Procs : ProbeBad(p) /\ req[p].file.data = ZeroHeight /\ log[p][3] = "exit 0"

\* the side effects of a run that goes through, in order
StepOrder ==
    <<"Bun.write", "ffprobe", "exit 0", "ffmpeg", "exit 0", "s3.write", "updateVideo", "rm">>

RemuxFailed(p) == Len(log[p]) >= 5 /\ log[p][4] = "ffmpeg" /\ log[p][5] = "exit 1"

\* C14: the steps of a run happen in the order buffer, probe, remux,
\* blob-store write, record update, each at most once and only after the
\* steps before it succeeded; a run whose remux failed writes no object.
C14_StepsInOrder ==
    \A p \in Procs :
        /\ Len(log[p]) <= Len(StepOrder)
        /\ \A i \in 1..Len(log[p]) :
              \/ log[p][i] = StepOrder[i]
              \/ /\ log[p][i] = "exit 1" /\ StepOrder[i] = "exit 0"
                 /\ i = Len(log[p]) /\ Failed(p)
        /\ (Failed(p) /\ Len(log[p]) < Len(StepOrder)) =>
              IF Len(log[p]) <= 5 THEN store = pre[p].store /\ db = pre[p].db
              ELSE db = pre[p].db
        /\ RemuxFailed(p) => store = pre[p].store /\ db = pre[p].db

C14_Witness == \E p \in Procs : RemuxFailed(p) /\ pre[p].store # <<>>


\* the thumbnail upload for video v has answered 200 and is the latest one
ThumbSucceeded(v) ==
    /\ thumb.pc = "done"
    /\ ~thumb.result.threw
    /\ thumb.req.videoId = v

\* C19: after a successful handlerUploadThumbnail for a video, a following
\* handlerGetThumbnail for that video answers with the uploaded bytes and
\* media type, not with "Thumbnail not found"
C19_GetReturnsUploaded ==
    [][\A v \in {"v1", "v2"} :
         (ThumbSucceeded(v) /\ GetThumbnail(v)) =>
             served'.response =
                 Responded(200, Thumbnail(thumb.req.file.data, thumb.req.file.type))]_vars

\* C13: the record update of a video upload changes the playback URL only:
\* identifier, owner and thumbnail URL of the stored record are what they
\* were immediately before the update, also when a thumbnail upload for the
\* same video finished after the video upload's getVideo
C13_RecordKeepsOtherFields ==
    [][\A p \in Procs :
         (Record(p) /\ pc'[p] = "cleanup") =>
             LET v == req[p].videoId
             IN  /\ db'[v].id = db[v].id
                 /\ db'[v].userID = db[v].userID
                 /\ db'[v].thumbnailURL = db[v].thumbnailURL]_vars

\* run q has buffered its payload and has not finished probing or remuxing
Buffered(q) == pc[q] \in {"probe", "remux"}

\* the file run q buffered is gone from the temporary path
BufferGone(q) == Buffered(q) /\ ~Exists(disk, TempFilePath(req[q].videoId))

\* run p has gone through its rm step for the path of run q
DeletedUnder(p, q) ==
    /\ p # q
    /\ req[p] # NoReq
    /\ req[p].videoId = req[q].videoId
    /\ Did(p, "rm")

\* C16: with two runs for the same video id interleaved at their awaits, one
\* run deletes /tmp/<videoId>.mp4 while the other has buffered there and has
\* not finished probing or remuxing. Such a state is reached (C16_Witness);
\* the buffered file only ever vanishes through the rm step of another run
\* for the same video id, and the run that lost its file then fails at its
\* next step although its request is valid
C16_DeletionRace ==
    [][/\ \A q \in Procs : BufferGone(q)' => \E p \in Procs : DeletedUnder(p, q)'
       /\ \A q \in Procs :
            (BufferGone(q) /\ pc'[q] # pc[q]) => (pc'[q] = "done" /\ result'[q].threw)]_vars

C16_Witness ==
    \E p, q \in Procs :
        /\ BufferGone(q)
        /\ DeletedUnder(p, q)
        /\ Succeeded(p)
        /\ ValidateRequest(req[q], pre[q].db) = "ok"
        /\ ValidateFile(req[q].file) = "ok"

\* C17: in every reachable state, overlapping uploads for one video id
\* included, an object stored under "<class>/<videoId>.mp4" is the rewritten
\* copy of a payload whose own classification is <class>
C17_ObjectMatchesClass ==
    \A k \in DOMAIN store :
        /\ store[k].body.faststart
        /\ getVideoAspectRatio(0, store[k].body.stream) = [threw |-> FALSE, value |-> k[1]]

Started(p) == req[p] # NoReq

\* every other run that was started is for another video id
Apart(p) == \A q \in Procs \ {p} : Started(q) => req[q].videoId # req[p].videoId

OwnRaw(p) == RawFile(req[p].file.data)
OwnClass(p) == AspectOf(req[p].file.data.width, req[p].file.data.height)
OwnKey(p) == StorageKey(OwnClass(p), req[p].videoId)
OwnRow(p) == [VideoRow(req[p].videoId) EXCEPT !.videoURL = VideoURL(OwnKey(p))]

\* what run p has in hand and has left behind is what it has when it is the
\* only run there is
AsWhenAlone(p) ==
    LET v == req[p].videoId
        temp == TempFilePath(v)
        recorded == Did(p, "updateVideo") /\ ~(Failed(p) /\ result[p].error = "SQLiteError")
    IN  /\ pc[p] \in {"probe", "remux", "upload", "record", "cleanup"} =>
               Exists(disk, temp) /\ disk[temp] = OwnRaw(p)
        /\ pc[p] \in {"remux", "upload", "record", "cleanup"} =>
               aspectRatio[p] = OwnClass(p)
        /\ pc[p] \in {"upload", "record", "cleanup"} =>
               /\ processedFilePath[p] = ProcessedPath(temp)
               /\ Exists(disk, processedFilePath[p])
               /\ disk[processedFilePath[p]] = FastStartOf(OwnRaw(p))
        /\ pc[p] \in {"record", "cleanup"} =>
               /\ Exists(store, OwnKey(p))
               /\ store[OwnKey(p)] = Object(FastStartOf(OwnRaw(p)), "video/mp4")
        /\ \A k \in DOMAIN store : k[3] = v => (k = OwnKey(p) /\ Did(p, "s3.write"))
        /\ \A x \in DOMAIN disk :
               x[3] = v => /\ Did(p, "Bun.write")
                           /\ x \in {temp, ProcessedPath(temp)}
        /\ db[v] = IF recorded THEN OwnRow(p) ELSE VideoRow(v)
        /\ Succeeded(p) => /\ result[p] = Responded(200, OwnRow(p))
                           /\ ~Exists(disk, temp)

\* C18: runs for different video ids do not interfere: each touches only the
\* temporary paths, the storage key and the VideoRecord of its own id, so
\* that in every interleaving a run has and leaves what it does when alone
C18_NoInterference ==
    /\ \A p \in Procs : (Started(p) /\ Apart(p)) => AsWhenAlone(p)
    /\ \A v \in DOMAIN db :
           (\A p \in Procs : Started(p) => req[p].videoId # v) =>
               /\ db[v] = VideoRow(v)
               /\ \A k \in DOMAIN store : k[3] # v
               /\ \A x \in DOMAIN disk : x[3] # v

C18_Witness ==
    \E p, q \in Procs :
        /\ Started(p) /\ Started(q)
        /\ req[p].videoId # req[q].videoId
        /\ pc[p] = "cleanup" /\ pc[q] = "cleanup"

====
